---- MODULE Spec2Model ----
(***************************************************************************)
(* Server management via the Compute API (src/compute/servers.rs):         *)
(*   - ServerQuery / DetailedServerQuery and the lazy, marker-based        *)
(*     ResourceIterator that executes them;                                *)
(*   - Server, its actions (reboot, start, stop, delete), NewServer and    *)
(*     the waiters they return, driven by the polling loop.                *)
(* QuerySpec is the specification of the query side, WaitSpec the one of   *)
(* the waiter side; each leaves the other side's variables untouched.      *)
(***************************************************************************)
EXTENDS Integers, Sequences, FiniteSets, TLC

VARIABLES
    q,          \* the ServerQuery under construction: params, can_paginate, detailed
    explicit,   \* whether with_marker or with_limit was ever applied to q (history)
    last,       \* the last builder call applied to q ("new" before any)
    qpc,        \* "build" | "iter" | "end"
    op,         \* how the query is executed: "iter" | "all" | "one" ("none" before)
    it,         \* the ResourceIterator made from the query
    listing,    \* ids of the servers matching the query, in the provider's order
    fetches,    \* the list requests issued so far (each a parameter list)
    yielded,    \* the items the iterator has yielded so far
    qres        \* result of one() / all() / the last next()

qvars == <<q, explicit, last, qpc, op, it, listing, fetches, yielded, qres>>

VARIABLES
    prov,       \* the provider's record of the server (or Gone)
    srv,        \* the caller's Server handle: id and last snapshot
    w,          \* the waiter alive, if any
    wpc,        \* position of the caller / of the polling loop
    elapsed,    \* seconds since the wait started
    timeout,    \* effective timeout of the wait
    wres,       \* result of the last operation or of the wait
    lastPoll,   \* what the last poll refreshed and returned
    npolls,     \* polls made by the current wait
    tlog,       \* transport calls made by the last operation, in order
    flavor,     \* the provider's record of the flavor the server uses
    request,    \* the NewServer request (NoRequest once create() has consumed it)
    moved       \* history: the provider changed the server since the caller's
                \* last request about it

wvars == <<prov, srv, w, wpc, elapsed, timeout, wres, lastPoll, npolls, tlog,
           flavor, request, moved>>

vars == <<qvars, wvars>>

-----------------------------------------------------------------------------
(* Bounds of the model *)
MaxItems == 101         \* largest listing served by the provider
MaxLimit == 2           \* largest explicit limit a caller passes
MaxMarker == 1          \* largest explicit marker (a server id) a caller passes
MaxParams == 2          \* parameters a query holds before a call adds more
MaxFaultAt == 3         \* a fault plan fails one of the first MaxFaultAt fetches
MaxOverride == 2        \* largest timeout (seconds) a caller passes to wait_for
MaxElapsed == 1806      \* the clock and the poll count of a wait stop here
                        \* (beyond every default timeout plus its delay)
MaxNics == 2            \* most NICs a NewServer request holds

(* Option<T> *)
None == <<>>
Some(x) == <<x>>

Min(a, b) == IF a < b THEN a ELSE b

-----------------------------------------------------------------------------
(* utils::Query: an ordered list of (name, value) request parameters *)

QueryNew == <<>>

Push(query, key, value) == Append(query, <<key, value>>)

(* Query::with_marker_and_limit: a copy with the given limit and marker added *)
WithMarkerAndLimit(query, limit, marker) ==
    LET withLimit == IF limit = None THEN query ELSE Push(query, "limit", limit[1])
    IN  IF marker = None THEN withLimit ELSE Push(withLimit, "marker", marker[1])

RECURSIVE ParamValues(_, _)
ParamValues(query, key) ==
    IF query = <<>> THEN <<>>
    ELSE IF Head(query)[1] = key
         THEN <<Head(query)[2]>> \o ParamValues(Tail(query), key)
         ELSE ParamValues(Tail(query), key)

-----------------------------------------------------------------------------
(* The transport's list endpoint (Session::list_servers[_detail]).  A request *)
(* that repeats a parameter is answered using either its first or its last    *)
(* value: which one is the provider's choice (pick).                          *)

PickOf(vs, pick) ==
    IF vs = <<>> THEN None
    ELSE IF pick = "first" THEN Some(vs[1]) ELSE Some(vs[Len(vs)])

Effective(query, key, pick) == PickOf(ParamValues(query, key), pick)

IndexOf(lst, id) ==
    IF \E i \in 1..Len(lst) : lst[i] = id
    THEN CHOOSE i \in 1..Len(lst) : lst[i] = id
    ELSE 0

(* The servers after the marker m, at most l of them; an unknown marker is *)
(* a bad request.                                                          *)
Page(lst, m, l, start) ==
    IF m # None /\ start = 0
    THEN [ok |-> FALSE, err |-> "BadRequest", items |-> <<>>]
    ELSE [ok |-> TRUE, err |-> "",
          items |-> SubSeq(lst, start + 1,
                           IF l = None THEN Len(lst) ELSE Min(Len(lst), start + l[1]))]

PageFrom(lst, m, l) == Page(lst, m, l, IF m = None THEN 0 ELSE IndexOf(lst, m[1]))

ListServers(query, lst, pick) ==
    PageFrom(lst, Effective(query, "marker", pick), Effective(query, "limit", pick))

(* Ids of the servers of a listing of n servers, in the provider's order *)
Listing(n) == [i \in 1..n |-> i]

-----------------------------------------------------------------------------
(* ServerQuery and DetailedServerQuery.  A DetailedServerQuery wraps a       *)
(* ServerQuery (field inner); the wrapper is the flag detailed.              *)

SummaryDefaultLimit == 100      \* <ServerQuery as ResourceQuery>::DEFAULT_LIMIT
DetailedDefaultLimit == 50      \* <DetailedServerQuery as ResourceQuery>::DEFAULT_LIMIT

ServerQueryNew == [params |-> QueryNew, can_paginate |-> TRUE, detailed |-> FALSE]

with_marker(query, marker) ==
    [query EXCEPT !.can_paginate = FALSE, !.params = Push(@, "marker", marker)]

(* with_limit without the switch to manual pagination *)
with_limit_still_paginating(query, limit) ==
    [query EXCEPT !.params = Push(@, "limit", limit)]

with_limit(query, limit) ==
    [query EXCEPT !.can_paginate = FALSE, !.params = Push(@, "limit", limit)]

sort_by(query, field, direction) ==
    [query EXCEPT !.params = Push(Push(@, "sort_key", field), "sort_dir", direction)]

with_name(query, value) == [query EXCEPT !.params = Push(@, "name", value)]

detailed(query) == [query EXCEPT !.detailed = TRUE]

(* a conversion that builds a new summary query around the parameters *)
FromDetailedRebuilt(query) ==
    [params |-> query.params, can_paginate |-> TRUE, detailed |-> FALSE]

(* From<DetailedServerQuery> for ServerQuery: value.inner *)
FromDetailed(query) == [query EXCEPT !.detailed = FALSE]

(* From<ServerQuery> for DetailedServerQuery: value.detailed() *)
FromServerQuery(query) == detailed(query)

(* #[derive(Clone)]: a field-by-field copy *)
CloneQuery(query) ==
    [params |-> query.params, can_paginate |-> query.can_paginate,
     detailed |-> query.detailed]

can_paginate(query) == query.can_paginate

DefaultLimit(query) ==
    IF query.detailed THEN DetailedDefaultLimit ELSE SummaryDefaultLimit

(* Listing sizes explored: the small ones and those next to a multiple of a *)
(* default chunk size                                                       *)
Sizes ==
    {n \in 0..MaxItems : n <= MaxLimit + 1 \/ n % DetailedDefaultLimit = 0 \/ n = MaxItems}

(* Items: a ServerSummary (id and name) or a full Server *)
NameOf(id) == id + MaxItems + 1
ServerSummaryOf(id) == [id |-> id, name |-> NameOf(id), kind |-> "summary"]
ServerOf(id) == [id |-> id, name |-> NameOf(id), kind |-> "server"]

(* the marker taken from the name instead of the id *)
extract_marker_by_name(resource) == resource.name

(* the marker taken from the item before the last one *)
extract_marker_previous(resource) == resource.id - 1

extract_marker(resource) == resource.id

(* ResourceQuery::fetch_chunk.  fault is what goes wrong in this fetch:     *)
(* "ok" (nothing), "list" (the list request fails) or, for a detailed       *)
(* listing, "flavor_first" / "flavor_last" (Server::new fails on the flavor *)
(* lookup of the first / of the last server of the chunk).                  *)
ChunkError(err, req) == [ok |-> FALSE, err |-> err, items |-> <<>>, req |-> req]

(* a fetch that takes a failed list request for an empty chunk *)
SummaryChunkSwallowing(r, req, fault) ==
    IF fault = "list" \/ ~r.ok THEN [ok |-> TRUE, err |-> "", req |-> req, items |-> <<>>]
    ELSE [ok |-> TRUE, err |-> "", req |-> req,
          items |-> [i \in 1..Len(r.items) |-> ServerSummaryOf(r.items[i])]]

SummaryChunk(r, req, fault) ==
    IF fault = "list" THEN ChunkError("Transport", req)
    ELSE IF ~r.ok THEN ChunkError(r.err, req)
    ELSE [ok |-> TRUE, err |-> "", req |-> req,
          items |-> [i \in 1..Len(r.items) |-> ServerSummaryOf(r.items[i])]]

SummaryRequest(query, req, lst, pick, fault) ==
    SummaryChunk(ListServers(req, lst, pick), req, fault)

SummaryFetchChunk(query, limit, marker, lst, pick, fault) ==
    SummaryRequest(query, WithMarkerAndLimit(query.params, limit, marker), lst, pick,
                   fault)

(* Index of the server whose Server::new fails, 0 when none does *)
FailingServer(fault, n) ==
    IF fault = "flavor_first" /\ n > 0 THEN 1
    ELSE IF fault = "flavor_last" THEN n
    ELSE 0

(* The loop of DetailedServerQuery::fetch_chunk: result.push(Server::new(..)?) *)
(* for each server listed; the first failure returns the error and drops the  *)
(* servers pushed so far.                                                      *)
BuiltServers(ids, failing, req) ==
    IF failing \in 1..Len(ids) THEN ChunkError("FlavorLookup", req)
    ELSE [ok |-> TRUE, err |-> "", req |-> req,
          items |-> [i \in 1..Len(ids) |-> ServerOf(ids[i])]]

(* a loop that leaves out the servers whose Server::new fails *)
DetailedChunkSkipFailing(r, req, fault) ==
    IF fault = "list" THEN ChunkError("Transport", req)
    ELSE IF ~r.ok THEN ChunkError(r.err, req)
    ELSE [ok |-> TRUE, err |-> "", req |-> req,
          items |-> [i \in 1..(Len(r.items)
                                - (IF FailingServer(fault, Len(r.items)) > 0 THEN 1 ELSE 0))
                       |-> ServerOf(r.items[IF fault = "flavor_first" THEN i + 1 ELSE i])]]

DetailedChunk(r, req, fault) ==
    IF fault = "list" THEN ChunkError("Transport", req)
    ELSE IF ~r.ok THEN ChunkError(r.err, req)
    ELSE BuiltServers(r.items, FailingServer(fault, Len(r.items)), req)

DetailedRequest(query, req, lst, pick, fault) ==
    DetailedChunk(ListServers(req, lst, pick), req, fault)

DetailedFetchChunk(query, limit, marker, lst, pick, fault) ==
    DetailedRequest(query, WithMarkerAndLimit(query.params, limit, marker), lst, pick,
                    fault)

fetch_chunk(query, limit, marker, lst, pick, fault) ==
    IF query.detailed
    THEN DetailedFetchChunk(query, limit, marker, lst, pick, fault)
    ELSE SummaryFetchChunk(query, limit, marker, lst, pick, fault)

-----------------------------------------------------------------------------
(* common::ResourceIterator: the lazy sequence executing a query.           *)
(*   cache    the items of the current chunk not yet yielded                *)
(*   started  whether a chunk has been fetched                              *)
(*   marker   the cursor: id of the last item of the last chunk             *)
(*   short    whether the last chunk held fewer items than were requested   *)

ResourceIteratorNew(query) ==
    [query |-> query, cache |-> <<>>, started |-> FALSE, marker |-> None,
     short |-> FALSE]

(* One call of next().  Result: the iterator afterwards, out ("item", "none" *)
(* or "err"), the item yielded, the requests issued and the error.           *)
NextResult(itr, out, item, reqs, err) ==
    [it |-> itr, out |-> out, item |-> item, reqs |-> reqs, err |-> err]

(* The iterator after a chunk of n items was fetched with the given limit *)
Fetched(itr, limit, n) ==
    [itr EXCEPT !.started = TRUE, !.short = (limit = None) \/ n < limit[1]]

AfterFetch(itr, limit, chunk) ==
    IF ~chunk.ok THEN NextResult(itr, "err", <<>>, <<chunk.req>>, chunk.err)
    ELSE IF chunk.items = <<>>
    THEN NextResult(Fetched(itr, limit, 0), "none", <<>>, <<chunk.req>>, "")
    ELSE NextResult([Fetched(itr, limit, Len(chunk.items)) EXCEPT
                        !.cache = Tail(chunk.items),
                        !.marker = Some(extract_marker(chunk.items[Len(chunk.items)]))],
                    "item", <<chunk.items[1]>>, <<chunk.req>>, "")

FetchNext(itr, limit, marker, lst, pick, fault) ==
    AfterFetch(itr, limit, fetch_chunk(itr.query, limit, marker, lst, pick, fault))

IterNext(itr, lst, pick, fault) ==
    IF itr.cache # <<>>
    THEN NextResult([itr EXCEPT !.cache = Tail(@)], "item", <<Head(itr.cache)>>, <<>>, "")
    ELSE IF itr.started /\ ~(can_paginate(itr.query) /\ ~itr.short)
    THEN NextResult(itr, "none", <<>>, <<>>, "")
    ELSE IF can_paginate(itr.query)
    THEN FetchNext(itr, Some(DefaultLimit(itr.query)), itr.marker, lst, pick, fault)
    ELSE FetchNext(itr, None, None, lst, pick, fault)

(* What goes wrong in the k-th fetch of a call, under the fault plan fl *)
FaultFor(fl, k) == IF fl.at = k THEN fl.kind ELSE "ok"

CallResult(kind, err, items, reqs) ==
    [kind |-> kind, err |-> err, items |-> items, reqs |-> reqs]

(* FallibleIterator::collect: drain the iterator; the first error is the    *)
(* result.  The calls of next() that find the cache non-empty yield its     *)
(* items in order and issue nothing, so they are taken in one step.         *)
RECURSIVE Collect(_, _, _, _, _, _)
Collected(r, lst, pick, fl, acc, reqs) ==
    IF r.out = "err" THEN CallResult("err", r.err, <<>>, reqs \o r.reqs)
    ELSE IF r.out = "none" THEN CallResult("ok", "", acc, reqs \o r.reqs)
    ELSE Collect(r.it, lst, pick, fl, acc \o r.item, reqs \o r.reqs)

Collect(itr, lst, pick, fl, acc, reqs) ==
    Collected(IterNext([itr EXCEPT !.cache = <<>>], lst, pick,
                       FaultFor(fl, Len(reqs) + 1)),
              lst, pick, fl, acc \o itr.cache, reqs)

(* ResourceIterator::one: take up to two items and check the cardinality *)
OneSecond(r1, r2) ==
    IF r2.out = "err" THEN CallResult("err", r2.err, <<>>, r1.reqs \o r2.reqs)
    ELSE IF r2.out = "item"
    THEN CallResult("err", "TooManyItems", <<>>, r1.reqs \o r2.reqs)
    ELSE CallResult("ok", "", r1.item, r1.reqs \o r2.reqs)

OneFirst(r1, lst, pick, fl) ==
    IF r1.out = "err" THEN CallResult("err", r1.err, <<>>, r1.reqs)
    ELSE IF r1.out = "none" THEN CallResult("err", "ResourceNotFound", <<>>, r1.reqs)
    ELSE OneSecond(r1, IterNext(r1.it, lst, pick, FaultFor(fl, Len(r1.reqs) + 1)))

IterOne(itr, lst, pick, fl) ==
    OneFirst(IterNext(itr, lst, pick, FaultFor(fl, 1)), lst, pick, fl)

(* one() variants: a probe of one item; no probe limit; the probe limit   *)
(* pushed whatever the caller set                                         *)
OneQueryLimitOne(query) ==
    IF query.can_paginate
    THEN [query EXCEPT !.params = Push(@, "limit", 1)]
    ELSE query

OneQueryNoLimit(query) == query

OneQueryAlwaysLimit(query) == [query EXCEPT !.params = Push(@, "limit", 2)]

(* ServerQuery::one: the query handed to the iterator *)
OneQuery(query) ==
    IF query.can_paginate
    THEN [query EXCEPT !.params = Push(@, "limit", 2)]
    ELSE query

-----------------------------------------------------------------------------
(* The query side as a state machine *)

NoResult == [kind |-> "none", err |-> "", items |-> <<>>]

Picks == {"first", "last"}
FaultsOf(query) ==
    IF query.detailed THEN {"ok", "list", "flavor_first", "flavor_last"}
    ELSE {"ok", "list"}
FaultPlans == [at : 0..MaxFaultAt, kind : {"list"}]

QInit ==
    /\ q = ServerQueryNew
    /\ explicit = FALSE
    /\ last = "new"
    /\ qpc = "build"
    /\ op = "none"
    /\ it = ResourceIteratorNew(ServerQueryNew)
    /\ listing = <<>>
    /\ fetches = <<>>
    /\ yielded = <<>>
    /\ qres = NoResult

Adding == qpc = "build" /\ ~q.detailed /\ Len(q.params) < MaxParams

Built(query, call) ==
    /\ qpc = "build"
    /\ q' = query
    /\ explicit' = (explicit \/ call \in {"with_marker", "with_limit"})
    /\ last' = call
    /\ UNCHANGED <<qpc, op, it, listing, fetches, yielded, qres>>
    /\ UNCHANGED wvars

WithMarker == Adding /\ \E m \in 1..MaxMarker : Built(with_marker(q, m), "with_marker")

WithLimit == Adding /\ \E l \in 1..MaxLimit : Built(with_limit(q, l), "with_limit")

SortBy == Adding /\ Built(sort_by(q, 1, 1), "sort_by")

WithName == Adding /\ Built(with_name(q, 1), "with_name")

Detailed == ~q.detailed /\ Built(detailed(q), "detailed")

IntoServerQuery == q.detailed /\ Built(FromDetailed(q), "into_summary")

IntoDetailedServerQuery == ~q.detailed /\ Built(FromServerQuery(q), "into_detailed")

Clone == last # "clone" /\ Built(CloneQuery(q), "clone")

(* an into_iter that sends the query's request at once *)
StartedEagerly(query, n) ==
    /\ qpc = "build"
    /\ qpc' = "iter"
    /\ op' = "iter"
    /\ it' = ResourceIteratorNew(query)
    /\ listing' = Listing(n)
    /\ fetches' = <<query.params>>
    /\ UNCHANGED <<q, explicit, last, yielded, qres>>
    /\ UNCHANGED wvars

(* into_iter makes the iterator and issues no request; the servers matching *)
(* the query are whatever the provider holds when the query is executed.    *)
Started(query, n) ==
    /\ qpc = "build"
    /\ qpc' = "iter"
    /\ op' = "iter"
    /\ it' = ResourceIteratorNew(query)
    /\ listing' = Listing(n)
    /\ UNCHANGED <<q, explicit, last, fetches, yielded, qres>>
    /\ UNCHANGED wvars

IntoIter == ~q.detailed /\ \E n \in Sizes : Started(q, n)

DetailedIntoIter == q.detailed /\ \E n \in Sizes : Started(q, n)

IntoIterDetailed == ~q.detailed /\ \E n \in Sizes : Started(detailed(q), n)

(* One call of next() by the caller, who stops at the first None or error *)
NextItem ==
    /\ qpc = "iter"
    /\ \E pick \in Picks, fault \in FaultsOf(it.query) :
         \E r \in {IterNext(it, listing, pick, fault)} :
             /\ it' = r.it
             /\ fetches' = fetches \o r.reqs
             /\ yielded' = yielded \o r.item
             /\ qpc' = IF r.out = "item" THEN "iter" ELSE "end"
             /\ qres' = IF r.out = "err"
                        THEN [kind |-> "err", err |-> r.err, items |-> <<>>]
                        ELSE IF r.out = "none"
                        THEN [kind |-> "ok", err |-> "", items |-> yielded]
                        ELSE qres
    /\ UNCHANGED <<q, explicit, last, op, listing>>
    /\ UNCHANGED wvars

Ran(how, query, n, r) ==
    /\ qpc' = "end"
    /\ op' = how
    /\ it' = ResourceIteratorNew(query)
    /\ listing' = Listing(n)
    /\ fetches' = r.reqs
    /\ yielded' = r.items
    /\ qres' = [kind |-> r.kind, err |-> r.err, items |-> r.items]
    /\ UNCHANGED <<q, explicit, last>>
    /\ UNCHANGED wvars

All ==
    /\ qpc = "build" /\ ~q.detailed
    /\ \E n \in Sizes, pick \in Picks, fl \in FaultPlans :
         Ran("all", q, n, Collect(ResourceIteratorNew(q), Listing(n), pick, fl, <<>>, <<>>))

One ==
    /\ qpc = "build" /\ ~q.detailed
    /\ \E n \in Sizes, pick \in Picks, fl \in FaultPlans :
         Ran("one", OneQuery(q), n,
             IterOne(ResourceIteratorNew(OneQuery(q)), Listing(n), pick, fl))

QNext ==
    \/ WithMarker \/ WithLimit \/ SortBy \/ WithName
    \/ Detailed \/ IntoServerQuery \/ IntoDetailedServerQuery \/ Clone
    \/ IntoIter \/ DetailedIntoIter \/ IntoIterDetailed
    \/ NextItem \/ All \/ One

-----------------------------------------------------------------------------
(* Servers as the provider reports them *)

ServerIds == {"srv-1", "srv-2"}

(* protocol::ServerStatus and its Display *)
Display(status) ==
    CASE status = "Active" -> "ACTIVE"
      [] status = "ShutOff" -> "SHUTOFF"
      [] status = "Error" -> "ERROR"
      [] status = "Building" -> "BUILD"
      [] status = "Rebooting" -> "REBOOT"
      [] OTHER -> "UNKNOWN"

(* protocol::Server: the fields of a snapshot that change (status, power_state) *)
ProvStates ==
    { [status |-> "Active", power |-> "Running"],
      [status |-> "ShutOff", power |-> "Shutdown"],
      [status |-> "Error", power |-> "NoState"],
      [status |-> "Building", power |-> "NoState"],
      [status |-> "Rebooting", power |-> "Running"] }

(* A snapshot: a status and power state, and whether the server has an image *)
Reported(st, image) == [status |-> st.status, power |-> st.power, image |-> image]

(* the provider holds no such server *)
Gone == [status |-> "Gone", power |-> "NoState", image |-> FALSE]

(* protocol::Flavor as get_flavor returns it *)
Flavors ==
    { [vcpus |-> 1, ram |-> 512, disk |-> 1, ephemeral |-> 0, swap |-> 0],
      [vcpus |-> 2, ram |-> 2048, disk |-> 20, ephemeral |-> 10, swap |-> 1] }

(* a Server::new that takes the root disk size from the ephemeral one *)
ServerFlavorMixedUp(f) ==
    [vcpu_count |-> f.vcpus, ram_size |-> f.ram, root_size |-> f.ephemeral,
     ephemeral_size |-> f.ephemeral, swap_size |-> f.swap]

(* protocol::ServerFlavor as Server::new fills it from the flavor looked up *)
ServerFlavorOf(f) ==
    [vcpu_count |-> f.vcpus, ram_size |-> f.ram, root_size |-> f.disk,
     ephemeral_size |-> f.ephemeral, swap_size |-> f.swap]

NoFlavor == [vcpu_count |-> 0, ram_size |-> 0, root_size |-> 0,
             ephemeral_size |-> 0, swap_size |-> 0]

NoServer == [id |-> "", inner |-> Gone, flavor |-> NoFlavor]

(* Error::new(kind, message); the message as the list of its parts *)
Error(kind, msg) == [kind |-> kind, msg |-> msg]
NoError == Error("", <<>>)
Names(e, x) == \E i \in 1..Len(e.msg) : e.msg[i] = x

(* Session::get_server_by_id (the transport): the provider's record, or    *)
(* ResourceNotFound when the server is gone, or a transport fault.          *)
GetServerById(id, p, fault) ==
    IF fault = "fail" THEN [ok |-> FALSE, err |-> Error("Transport", <<"request failed">>), inner |-> Gone]
    ELSE IF p = Gone
    THEN [ok |-> FALSE, err |-> Error("ResourceNotFound", <<"Server", id, "not found">>), inner |-> Gone]
    ELSE [ok |-> TRUE, err |-> NoError, inner |-> p]

(* Refresh for Server: self.inner = get_server_by_id(&self.inner.id)?       *)
(* calls are the transport calls made.                                      *)
Refreshed(server, r) ==
    IF r.ok
    THEN [ok |-> TRUE, err |-> NoError, server |-> [server EXCEPT !.inner = r.inner],
          calls |-> <<[name |-> "get_server_by_id", id |-> server.id, arg |-> ""]>>]
    ELSE [ok |-> FALSE, err |-> r.err, server |-> server,
          calls |-> <<[name |-> "get_server_by_id", id |-> server.id, arg |-> ""]>>]

(* a refresh that copies the status alone out of the new snapshot *)
refresh_status_only(server, p, fault) ==
    LET r == GetServerById(server.id, p, fault)
    IN  IF r.ok
        THEN [ok |-> TRUE, err |-> NoError,
              server |-> [server EXCEPT !.inner.status = r.inner.status],
              calls |-> <<[name |-> "get_server_by_id", id |-> server.id, arg |-> ""]>>]
        ELSE [ok |-> FALSE, err |-> r.err, server |-> server,
              calls |-> <<[name |-> "get_server_by_id", id |-> server.id, arg |-> ""]>>]

refresh(server, p, fault) == Refreshed(server, GetServerById(server.id, p, fault))

status(server) == server.inner.status

-----------------------------------------------------------------------------
(* The waiters *)

NoWaiter == [kind |-> "none", target |-> ""]
ServerStatusWaiter(target) == [kind |-> "status", target |-> target]
ServerCreationWaiter == [kind |-> "creation", target |-> "Active"]
(* common::DeletionWaiter::new(server, timeout, delay) *)
DeletionWaiter == [kind |-> "deletion", target |-> "Gone"]

StatusWaitTimeout == 600        \* ServerStatusWaiter::default_wait_timeout
StatusDelay == 1                \* ServerStatusWaiter::default_delay
CreationWaitTimeout == 1800     \* ServerCreationWaiter::default_wait_timeout
CreationDelay == 5              \* ServerCreationWaiter::default_delay
DeletionWaitTimeout == 120      \* Server::delete: DeletionWaiter::new(self, 120 s, 1 s)
DeletionDelay == 1

(* a creation-waiter without a default timeout *)
default_wait_timeout_creation_none(waiter) ==
    CASE waiter.kind = "status" -> Some(StatusWaitTimeout)
      [] waiter.kind = "creation" -> None
      [] OTHER -> Some(DeletionWaitTimeout)

default_wait_timeout(waiter) ==
    CASE waiter.kind = "status" -> Some(StatusWaitTimeout)
      [] waiter.kind = "creation" -> Some(CreationWaitTimeout)
      [] OTHER -> Some(DeletionWaitTimeout)

default_delay(waiter) ==
    CASE waiter.kind = "status" -> StatusDelay
      [] waiter.kind = "creation" -> CreationDelay
      [] OTHER -> DeletionDelay

(* a timeout message that leaves the target out *)
StatusTimeoutErrorNoTarget(waiter, server) ==
    Error("OperationTimedOut", <<"Timeout waiting for server", server.id>>)

StatusTimeoutError(waiter, server) ==
    Error("OperationTimedOut",
          <<"Timeout waiting for server", server.id, "to reach state",
            Display(waiter.target)>>)

CreationTimeoutError(waiter, server) ==
    Error("OperationTimedOut",
          <<"Timeout waiting for server", server.id, "to become", "ACTIVE">>)

DeletionTimeoutError(waiter, server) ==
    Error("OperationTimedOut",
          <<"Timeout waiting for resource", server.id, "to be deleted">>)

timeout_error(waiter, server) ==
    CASE waiter.kind = "status" -> StatusTimeoutError(waiter, server)
      [] waiter.kind = "creation" -> CreationTimeoutError(waiter, server)
      [] OTHER -> DeletionTimeoutError(waiter, server)

(* A poll's result: out is "ready" (Ok(Some)), "pending" (Ok(None)) or     *)
(* "err"; server is the handle afterwards; value what a success carries;   *)
(* ok and seen are the refresh's outcome and the status it obtained.       *)
PollResult(out, err, r, value) ==
    [out |-> out, err |-> err, server |-> r.server, value |-> value,
     ok |-> r.ok, seen |-> IF r.ok THEN status(r.server) ELSE "",
     refreshErr |-> r.err.kind, calls |-> r.calls]

(* poll variants: the comparison with the target inverted; a vanished     *)
(* server taken for success, as the deletion-waiter does                  *)
StatusWaiterPollInverted(waiter, server, p, fault) ==
    LET r == refresh(server, p, fault)
    IN  IF ~r.ok THEN PollResult("err", r.err, r, NoServer)
        ELSE IF status(r.server) # waiter.target
        THEN PollResult("ready", NoError, r, NoServer)
        ELSE PollResult("pending", NoError, r, NoServer)

StatusWaiterPollGoneIsReady(waiter, server, p, fault) ==
    LET r == refresh(server, p, fault)
    IN  IF ~r.ok /\ r.err.kind = "ResourceNotFound"
        THEN PollResult("ready", NoError, r, NoServer)
        ELSE IF ~r.ok THEN PollResult("err", r.err, r, NoServer)
        ELSE IF status(r.server) = waiter.target
        THEN PollResult("ready", NoError, r, NoServer)
        ELSE PollResult("pending", NoError, r, NoServer)

StatusWaiterPoll(waiter, server, p, fault) ==
    LET r == refresh(server, p, fault)
    IN  IF ~r.ok THEN PollResult("err", r.err, r, NoServer)
        ELSE IF status(r.server) = waiter.target
        THEN PollResult("ready", NoError, r, NoServer)
        ELSE IF status(r.server) = "Error"
        THEN PollResult("err",
                        Error("OperationFailed",
                              <<"Server", r.server.id, "got into ERROR state">>),
                        r, NoServer)
        ELSE PollResult("pending", NoError, r, NoServer)

(* creation polls: a failed refresh taken for "not yet"; a success that   *)
(* carries the snapshot held before the refresh                           *)
CreationWaiterPollSwallowing(waiter, server, p, fault) ==
    LET r == refresh(server, p, fault)
    IN  IF ~r.ok THEN PollResult("pending", NoError, r, NoServer)
        ELSE IF status(r.server) = "Active"
        THEN PollResult("ready", NoError, r, r.server)
        ELSE IF status(r.server) = "Error"
        THEN PollResult("err",
                        Error("OperationFailed",
                              <<"Server", r.server.id, "got into ERROR state">>),
                        r, NoServer)
        ELSE PollResult("pending", NoError, r, NoServer)

CreationWaiterPollStale(waiter, server, p, fault) ==
    LET r == refresh(server, p, fault)
    IN  IF ~r.ok THEN PollResult("err", r.err, r, NoServer)
        ELSE IF status(r.server) = "Active"
        THEN PollResult("ready", NoError, r, server)
        ELSE IF status(r.server) = "Error"
        THEN PollResult("err",
                        Error("OperationFailed",
                              <<"Server", r.server.id, "got into ERROR state">>),
                        r, NoServer)
        ELSE PollResult("pending", NoError, r, NoServer)

CreationWaiterPoll(waiter, server, p, fault) ==
    LET r == refresh(server, p, fault)
    IN  IF ~r.ok THEN PollResult("err", r.err, r, NoServer)
        ELSE IF status(r.server) = "Active"
        THEN PollResult("ready", NoError, r, r.server)
        ELSE IF status(r.server) = "Error"
        THEN PollResult("err",
                        Error("OperationFailed",
                              <<"Server", r.server.id, "got into ERROR state">>),
                        r, NoServer)
        ELSE PollResult("pending", NoError, r, NoServer)

(* DeletionWaiter::poll: the resource is gone when its refresh cannot find it *)
DeletionWaiterPoll(waiter, server, p, fault) ==
    LET r == refresh(server, p, fault)
    IN  IF r.ok THEN PollResult("pending", NoError, r, NoServer)
        ELSE IF r.err.kind = "ResourceNotFound"
        THEN PollResult("ready", NoError, r, NoServer)
        ELSE PollResult("err", r.err, r, NoServer)

poll(waiter, server, p, fault) ==
    CASE waiter.kind = "status" -> StatusWaiterPoll(waiter, server, p, fault)
      [] waiter.kind = "creation" -> CreationWaiterPoll(waiter, server, p, fault)
      [] OTHER -> DeletionWaiterPoll(waiter, server, p, fault)

-----------------------------------------------------------------------------
(* Operations on a Server and on a NewServer.  Each result names the        *)
(* transport calls made (calls), the waiter returned and the error.          *)

Call(name, id, arg) == [name |-> name, id |-> id, arg |-> arg]

(* Session::server_action_with_args / server_simple_action / delete_server *)
TransportCall(p, fault) ==
    IF fault = "fail" THEN Error("Transport", <<"request failed">>)
    ELSE IF p = Gone THEN Error("ResourceNotFound", <<"Server", "not found">>)
    ELSE NoError

OpResult(err, waiter, transportCalls) ==
    [ok |-> err = NoError, err |-> err,
     waiter |-> IF err = NoError THEN waiter ELSE NoWaiter,
     calls |-> transportCalls]

reboot(server, reboot_type, p, fault) ==
    OpResult(TransportCall(p, fault), ServerStatusWaiter("Active"),
             <<Call("reboot", server.id, reboot_type)>>)

start(server, p, fault) ==
    OpResult(TransportCall(p, fault), ServerStatusWaiter("Active"),
             <<Call("os-start", server.id, "")>>)

(* a stop whose waiter waits for Active *)
stop_waiting_for_active(server, p, fault) ==
    OpResult(TransportCall(p, fault), ServerStatusWaiter("Active"),
             <<Call("os-stop", server.id, "")>>)

stop(server, p, fault) ==
    OpResult(TransportCall(p, fault), ServerStatusWaiter("ShutOff"),
             <<Call("os-stop", server.id, "")>>)

delete(server, p, fault) ==
    OpResult(TransportCall(p, fault), DeletionWaiter,
             <<Call("delete_server", server.id, "")>>)

(* NewServer: the references of the request.  A NIC is given by a network, *)
(* by a port or by a fixed IP.                                               *)
NicKinds == {"network", "port", "fixed_ip"}
NicLists == UNION {[1..n -> NicKinds] : n \in 0..MaxNics}
NoRequest == [live |-> FALSE, image |-> FALSE, keypair |-> FALSE, networks |-> <<>>]
Requests == [live : {TRUE}, image : BOOLEAN, keypair : BOOLEAN, networks : NicLists]

(* a conversion that passes ports on without verifying them *)
RECURSIVE convert_networks_ports_unverified(_)
convert_networks_ports_unverified(networks) ==
    IF networks = <<>> THEN <<>>
    ELSE (IF Head(networks) = "network"
          THEN <<Call("verify_network", "", "")>>
          ELSE <<>>) \o convert_networks_ports_unverified(Tail(networks))

(* convert_networks: the into_verified lookups it makes, in order *)
RECURSIVE convert_networks(_)
convert_networks(networks) ==
    IF networks = <<>> THEN <<>>
    ELSE (CASE Head(networks) = "network" -> <<Call("verify_network", "", "")>>
            [] Head(networks) = "port" -> <<Call("verify_port", "", "")>>
            [] OTHER -> <<>>) \o convert_networks(Tail(networks))

(* The lookups made while NewServer::create builds protocol::ServerCreate *)
Verifications(req) ==
    <<Call("verify_flavor", "", "")>>
    \o (IF req.image THEN <<Call("verify_image", "", "")>> ELSE <<>>)
    \o (IF req.keypair THEN <<Call("verify_keypair", "", "")>> ELSE <<>>)
    \o convert_networks(req.networks)

(* Server::load: get_server, then Server::new and its flavor lookup *)
ServerLoadCalls(id) == <<Call("get_server", id, ""), Call("get_flavor", id, "")>>

ServerNew(id, inner, f) == [id |-> id, inner |-> inner, flavor |-> ServerFlavorOf(f)]

(* All the transport calls of a create() in which none fails *)
CreatePlan(req, id) ==
    Verifications(req) \o <<Call("create_server", "", "")>> \o ServerLoadCalls(id)

(* NewServer::create: every call is followed by `?`, so the call failAt of  *)
(* the plan (0: none) returns its error and ends create(); f is the flavor  *)
(* that get_flavor returns.                                                  *)
CreateOutcome(plan, nverify, id, failAt, f, fresh) ==
    IF failAt \in 1..Len(plan)
    THEN [ok |-> FALSE, err |-> Error("Transport", <<plan[failAt].name, "failed">>),
          created |-> failAt > nverify + 1, server |-> NoServer,
          calls |-> SubSeq(plan, 1, failAt)]
    ELSE [ok |-> TRUE, err |-> NoError, created |-> TRUE,
          server |-> ServerNew(id, fresh, f),
          calls |-> plan]

(* What the provider holds of a server just created from the request *)
Fresh(req) == Reported([status |-> "Building", power |-> "NoState"], req.image)

NewServerCreate(req, id, failAt, f) ==
    CreateOutcome(CreatePlan(req, id), Len(Verifications(req)), id, failAt, f, Fresh(req))

-----------------------------------------------------------------------------
(* The waiter side as a state machine *)

NoWres == [kind |-> "none", err |-> NoError, value |-> NoServer]
NoPoll == [out |-> "none", ok |-> FALSE, seen |-> "", refreshErr |-> "", err |-> NoError]
Faults == {"ok", "fail"}

WIdle ==
    /\ prov = Gone
    /\ srv = NoServer
    /\ w = NoWaiter
    /\ wpc = "new"
    /\ elapsed = 0
    /\ timeout = 0
    /\ wres = NoWres
    /\ lastPoll = NoPoll
    /\ npolls = 0
    /\ tlog = <<>>
    /\ flavor = CHOOSE f \in Flavors : f.vcpus = 1
    /\ request = NoRequest
    /\ moved = FALSE

(* Either a NewServer request, or the handle of a server loaded earlier *)
WInit ==
    /\ w = NoWaiter /\ elapsed = 0 /\ timeout = 0 /\ wres = NoWres
    /\ lastPoll = NoPoll /\ npolls = 0 /\ tlog = <<>>
    /\ flavor \in Flavors
    /\ moved = FALSE
    /\ \/ wpc = "new" /\ prov = Gone /\ srv = NoServer /\ request \in Requests
       \/ /\ wpc = "idle"
          /\ prov \in {Reported(st, image) : st \in ProvStates, image \in BOOLEAN}
          /\ request = NoRequest
          /\ \E id \in ServerIds, f \in Flavors : srv = ServerNew(id, prov, f)

(* The provider's flavor is changed while a wait is under way *)
FlavorStep ==
    /\ wpc \in {"waiter", "sleep"}
    /\ flavor' \in Flavors \ {flavor}
    /\ UNCHANGED <<prov, srv, w, wpc, elapsed, timeout, wres, lastPoll, npolls, tlog,
                   request, moved>>
    /\ UNCHANGED qvars

(* The provider changes the server, or loses it, whenever it likes *)
ProviderStep ==
    /\ wpc \in {"idle", "waiter", "sleep"}
    /\ prov # Gone
    /\ prov' \in ({Reported(st, prov.image) : st \in ProvStates} \cup {Gone}) \ {prov}
    /\ UNCHANGED <<srv, w, wpc, elapsed, timeout, wres, lastPoll, npolls, tlog>>
    /\ moved' = TRUE
    /\ UNCHANGED <<flavor, request>>
    /\ UNCHANGED qvars

(* a handle that can be used while a waiter sleeps between two polls *)
HandleFreeBetweenPolls == wpc \in {"idle", "sleep"}

(* The caller can use the Server handle: no waiter holds it.  A status-     *)
(* waiter keeps the &'server mut Server it was made from for its lifetime;  *)
(* delete(self) and the creation-waiter take the Server by value.           *)
HandleFree == wpc = "idle"

(* An operation on the free handle: on success its waiter borrows the handle *)
Acted(r) ==
    /\ HandleFree
    /\ tlog' = r.calls
    /\ w' = r.waiter
    /\ wpc' = IF r.ok THEN "waiter" ELSE "idle"
    /\ wres' = [kind |-> IF r.ok THEN "none" ELSE "err", err |-> r.err, value |-> NoServer]
    /\ lastPoll' = NoPoll
    /\ UNCHANGED <<prov, srv, elapsed, timeout, npolls>>
    /\ moved' = FALSE
    /\ UNCHANGED <<flavor, request>>
    /\ UNCHANGED qvars

Reboot ==
    /\ HandleFree
    /\ \E reboot_type \in {"SOFT", "HARD"}, fault \in Faults :
         Acted(reboot(srv, reboot_type, prov, fault))

Start == HandleFree /\ \E fault \in Faults : Acted(start(srv, prov, fault))

Stop == HandleFree /\ \E fault \in Faults : Acted(stop(srv, prov, fault))

(* delete(self) consumes the handle: on failure nothing is left to act on *)
Delete ==
    /\ HandleFree
    /\ \E fault \in Faults :
         \E r \in {delete(srv, prov, fault)} :
             /\ tlog' = r.calls
             /\ w' = r.waiter
             /\ wpc' = IF r.ok THEN "waiter" ELSE "done"
             /\ wres' = [kind |-> IF r.ok THEN "none" ELSE "err", err |-> r.err,
                         value |-> NoServer]
    /\ lastPoll' = NoPoll
    /\ UNCHANGED <<prov, srv, elapsed, timeout, npolls>>
    /\ moved' = FALSE
    /\ UNCHANGED <<flavor, request>>
    /\ UNCHANGED qvars

Create ==
    /\ wpc = "new"
    /\ request.live
    /\ \E id \in ServerIds : \E failAt \in 0..Len(CreatePlan(request, id)) :
         \E r \in {NewServerCreate(request, id, failAt, flavor)} :
             /\ tlog' = r.calls
             /\ prov' = IF r.created THEN Fresh(request) ELSE prov
             /\ srv' = r.server
             /\ w' = IF r.ok THEN ServerCreationWaiter ELSE NoWaiter
             /\ wpc' = IF r.ok THEN "waiter" ELSE "done"
             /\ wres' = [kind |-> IF r.ok THEN "none" ELSE "err", err |-> r.err,
                         value |-> NoServer]
    /\ request' = NoRequest
    /\ moved' = FALSE
    /\ UNCHANGED <<elapsed, timeout, lastPoll, npolls, flavor>>
    /\ UNCHANGED qvars

(* The effective timeout of a wait: the caller's, else the waiter's default; *)
(* NoLimit when there is neither, and the wait is then not bounded in time  *)
NoLimit == -1

EffectiveTimeout(waiter, override) ==
    LET t == IF override = None THEN default_wait_timeout(waiter) ELSE override
    IN  IF t = None THEN NoLimit ELSE t[1]

Expired(e, t) == t # NoLimit /\ e > t

Waiting(override) ==
    /\ wpc = "waiter"
    /\ timeout' = EffectiveTimeout(w, override)
    /\ wpc' = "poll"
    /\ elapsed' = 0
    /\ npolls' = 0
    /\ UNCHANGED <<prov, srv, w, wres, lastPoll, tlog>>
    /\ UNCHANGED <<flavor, request, moved>>
    /\ UNCHANGED qvars

(* Waiter::wait: the default timeout *)
Wait == wpc = "waiter" /\ Waiting(None)

(* Waiter::wait_for(t) *)
WaitFor == wpc = "waiter" /\ \E t \in 0..MaxOverride : Waiting(Some(t))

Poll ==
    /\ wpc = "poll"
    /\ ~Expired(elapsed, timeout)
    /\ \E fault \in Faults :
         \E r \in {poll(w, srv, prov, fault)} :
             /\ srv' = r.server
             /\ tlog' = r.calls
             /\ lastPoll' = [out |-> r.out, ok |-> r.ok, seen |-> r.seen,
                             refreshErr |-> r.refreshErr, err |-> r.err]
             /\ wpc' = IF r.out = "pending" THEN "sleep" ELSE "done"
             /\ wres' = IF r.out = "pending" THEN wres
                        ELSE IF r.out = "ready"
                        THEN [kind |-> "ok", err |-> NoError, value |-> r.value]
                        ELSE [kind |-> "err", err |-> r.err, value |-> NoServer]
    /\ npolls' = Min(npolls + 1, MaxElapsed)
    /\ UNCHANGED <<prov, w, elapsed, timeout>>
    /\ moved' = FALSE
    /\ UNCHANGED <<flavor, request>>
    /\ UNCHANGED qvars

(* The sleep between two polls: the waiter's delay, possibly cut short when *)
(* it would pass the timeout                                                *)
Sleep ==
    /\ wpc = "sleep"
    /\ \E d \in 1..default_delay(w) :
         /\ d = default_delay(w) \/ Expired(elapsed + default_delay(w), timeout)
         /\ elapsed' = Min(elapsed + d, MaxElapsed)
    /\ wpc' = "poll"
    /\ UNCHANGED <<prov, srv, w, timeout, wres, lastPoll, npolls, tlog>>
    /\ UNCHANGED <<flavor, request, moved>>
    /\ UNCHANGED qvars

TimedOut ==
    /\ wpc = "poll"
    /\ Expired(elapsed, timeout)
    /\ wpc' = "done"
    /\ wres' = [kind |-> "err", err |-> timeout_error(w, srv), value |-> NoServer]
    /\ UNCHANGED <<prov, srv, w, elapsed, timeout, lastPoll, npolls, tlog>>
    /\ UNCHANGED <<flavor, request, moved>>
    /\ UNCHANGED qvars

(* The wait is over: a status-waiter gives the handle back, a successful   *)
(* creation-waiter hands over the Server it resolved with                   *)
Release ==
    /\ wpc = "done"
    /\ \/ w.kind = "status" /\ srv' = srv
       \/ w.kind = "creation" /\ wres.kind = "ok" /\ srv' = wres.value
    /\ wpc' = "idle"
    /\ w' = NoWaiter
    /\ elapsed' = 0 /\ timeout' = 0 /\ npolls' = 0
    /\ wres' = NoWres /\ lastPoll' = NoPoll /\ tlog' = <<>>
    /\ UNCHANGED prov
    /\ UNCHANGED <<flavor, request, moved>>
    /\ UNCHANGED qvars

WNext ==
    \/ ProviderStep \/ FlavorStep
    \/ Reboot \/ Start \/ Stop \/ Delete \/ Create
    \/ Wait \/ WaitFor \/ Poll \/ Sleep \/ TimedOut \/ Release

-----------------------------------------------------------------------------
QueryInit == QInit /\ WIdle

WaitInit == WInit /\ QInit

QuerySpec == QueryInit /\ [][QNext]_vars

WaitSpec == WaitInit /\ [][WNext]_vars

(* Waits driven with the default timeouts only, on one server and one plain *)
(* request.  The polling loop is one sequential loop of the calling thread: *)
(* a poll whose request has returned, a sleep and the timeout check each    *)
(* happen once they are due, which is weak fairness of the three steps.     *)
DefaultWaitInit ==
    /\ WInit
    /\ flavor = CHOOSE f \in Flavors : f.vcpus = 1
    /\ ~prov.image
    /\ ~request.image /\ ~request.keypair /\ request.networks = <<>>
    /\ wpc = "idle" => srv = ServerNew(CHOOSE id \in ServerIds : TRUE, prov, flavor)
    /\ QInit

DefaultWaitNext ==
    \/ ProviderStep
    \/ Reboot \/ Start \/ Stop \/ Delete \/ Create
    \/ Wait \/ Poll \/ Sleep \/ TimedOut \/ Release

DefaultWaitSpec ==
    /\ DefaultWaitInit /\ [][DefaultWaitNext]_vars
    /\ WF_vars(Poll) /\ WF_vars(Sleep) /\ WF_vars(TimedOut)

-----------------------------------------------------------------------------
(* Properties of the waiters (checked under WaitSpec) *)

(* The last poll of the waiter alive refreshed successfully and obtained st *)
Observed(st) == lastPoll.out # "none" /\ lastPoll.ok /\ lastPoll.seen = st

(* C1: a poll of a status-waiter or of a creation-waiter never returns      *)
(* success when the status its refresh obtained is Error.                   *)
C1_NoSuccessOnError ==
    (w.kind \in {"status", "creation"} /\ Observed("Error"))
        => (lastPoll.out # "ready" /\ wres.kind # "ok")

C1_Witness ==
    /\ w.kind = "status" /\ w.target = "ShutOff"
    /\ Observed("Error") /\ lastPoll.out = "err"

(* C2: when a status-waiter's or creation-waiter's entity is observed in    *)
(* Error, the wait ends with an OperationFailed error naming the entity id  *)
(* and the target status that was never reached.                            *)
C2_FailedNamesIdAndTarget ==
    (w.kind \in {"status", "creation"} /\ wpc = "done" /\ Observed("Error"))
        => /\ wres.kind = "err"
           /\ wres.err.kind = "OperationFailed"
           /\ Names(wres.err, srv.id)
           /\ Names(wres.err, Display(w.target))

(* C3: a wait on a status-waiter that ends without any poll having obtained *)
(* the target, Error or a refresh error ends with OperationTimedOut naming  *)
(* the entity id and the target, once the time elapsed exceeds the          *)
(* effective timeout; it does not end with success or OperationFailed.      *)
C3_TimedOut ==
    (w.kind = "status" /\ wpc = "done" /\ lastPoll.out \in {"none", "pending"})
        => /\ wres.kind = "err"
           /\ wres.err.kind = "OperationTimedOut"
           /\ Names(wres.err, srv.id)
           /\ Names(wres.err, Display(w.target))
           /\ elapsed > timeout

C3_Witness ==
    /\ w.kind = "status" /\ w.target = "ShutOff" /\ wpc = "done"
    /\ timeout = StatusWaitTimeout /\ lastPoll.out = "pending"
    /\ wres.err.kind = "OperationTimedOut"

(* C4: a poll whose refresh fails with ResourceNotFound reports success for *)
(* the deletion-waiter returned by delete(), and failure with that error    *)
(* for a status-waiter.                                                     *)
C4_NotFound ==
    (lastPoll.out # "none" /\ lastPoll.refreshErr = "ResourceNotFound")
        => /\ w.kind = "deletion"
                => (lastPoll.out = "ready" /\ wres.kind = "ok"
                    /\ tlog = <<Call("get_server_by_id", srv.id, "")>>)
           /\ w.kind = "status"
                => (lastPoll.out = "err" /\ wres.kind = "err"
                    /\ wres.err.kind = "ResourceNotFound")

C4_Witness ==
    /\ w.kind = "status" /\ wpc = "done"
    /\ lastPoll.refreshErr = "ResourceNotFound" /\ wres.err.kind = "ResourceNotFound"

-----------------------------------------------------------------------------
(* Properties of the queries (checked under QuerySpec) *)

Ids(items) == [i \in 1..Len(items) |-> items[i].id]

CeilDiv(n, k) == (n + k - 1) \div k

(* What the provider answers to the first request, under a choice of pick *)
FirstChunk(pick) == ListServers(fetches[1], listing, pick)

(* The zero / one / many check applied to the items of the first chunk *)
CardinalityChecked ==
    \E pick \in Picks : \E r \in {FirstChunk(pick)} :
        \/ ~r.ok /\ qres.kind = "err" /\ qres.err = r.err
        \/ r.ok /\ Len(r.items) = 0 /\ qres.err = "ResourceNotFound"
        \/ r.ok /\ Len(r.items) = 1 /\ qres.kind = "ok" /\ Ids(yielded) = r.items
        \/ r.ok /\ Len(r.items) >= 2 /\ qres.err = "TooManyItems"

(* C5: once with_marker or with_limit was applied, executing the query      *)
(* issues exactly one fetch, whose parameters are exactly the caller's, and *)
(* no continuation fetch follows, however many items the chunk holds.       *)
C5_ExplicitSingleFetch ==
    (explicit /\ qpc # "build")
        => /\ Len(fetches) <= 1
           /\ (qpc = "end" \/ yielded # <<>>) => Len(fetches) = 1
           /\ \A i \in 1..Len(fetches) : fetches[i] = q.params

C5_Witness ==
    /\ explicit /\ op = "iter" /\ qpc = "end" /\ it.query.detailed
    /\ Len(yielded) = 2 /\ Len(listing) > 2 /\ Len(fetches) = 1

(* C6: can_paginate is true on a new ServerQuery and false in every state   *)
(* after with_marker or with_limit, whatever builder calls follow.          *)
C6_CanPaginate ==
    /\ last = "new" => q.can_paginate
    /\ explicit => ~q.can_paginate
    /\ (explicit /\ qpc # "build") => ~it.query.can_paginate

C6_Witness == explicit /\ last = "into_summary" /\ ~q.detailed /\ ~q.can_paginate

(* An auto-paginating query drained to its end by next() or all() *)
Drained == qpc = "end" /\ op \in {"iter", "all"} /\ ~explicit

(* C7 as stated: draining an auto-paginating iterator over N items in       *)
(* chunks of K yields the N items in order using exactly ceil(N/K) fetches. *)
C7_Original ==
    (Drained /\ qres.kind = "ok")
        => /\ Ids(yielded) = listing
           /\ Len(fetches) = CeilDiv(Len(listing), DefaultLimit(it.query))

(* C7 as amended: the N items are yielded in order, of the listing's kind,  *)
(* using floor(N/K) + 1 fetches: ceil(N/K) when K does not divide N (the    *)
(* short last chunk ends the iteration), N/K + 1 when it does (an empty     *)
(* chunk ends it); and the drain fails only when a request of a fetch does.  *)
C7_Amended ==
    Drained
        => /\ qres.kind = "err" => qres.err \in {"Transport", "FlavorLookup"}
           /\ qres.kind = "ok"
                => /\ Ids(yielded) = listing
                   /\ \A i \in 1..Len(yielded) :
                        yielded[i].kind = IF it.query.detailed THEN "server" ELSE "summary"
                   /\ Len(fetches) = (Len(listing) \div DefaultLimit(it.query)) + 1

C7_Witness ==
    /\ Drained /\ qres.kind = "ok"
    /\ Len(listing) = DefaultLimit(it.query) /\ Len(yielded) = Len(listing)
    /\ Len(fetches) = 2

(* C8 as stated: one() fails with ResourceNotFound on zero items, returns   *)
(* the item on exactly one, fails with TooManyItems on two or more, and     *)
(* never returns an item when more than one item matches.                   *)
C8_Original ==
    (op = "one" /\ qpc = "end" /\ qres.err # "Transport")
        => /\ CardinalityChecked
           /\ Len(listing) > 1 => qres.kind # "ok"

(* C8 as amended: the check is applied to the items the query produces (the *)
(* chunk returned); with auto-pagination enabled that is the number of      *)
(* matching items, so no item is returned when more than one matches.       *)
C8_Amended ==
    (op = "one" /\ qpc = "end" /\ qres.err # "Transport")
        => /\ Len(fetches) = 1
           /\ CardinalityChecked
           /\ ~explicit =>
                /\ Len(listing) = 0 => qres.err = "ResourceNotFound"
                /\ Len(listing) = 1 => (qres.kind = "ok" /\ Ids(yielded) = listing)
                /\ Len(listing) > 1 => qres.err = "TooManyItems"

C8_Witness ==
    /\ op = "one" /\ qpc = "end" /\ ~explicit
    /\ Len(listing) = 1 /\ qres.kind = "ok" /\ Ids(yielded) = listing

C10_ExplicitOne ==
    (op = "one" /\ qpc = "end" /\ explicit)
        => /\ it.query = q
           /\ Len(fetches) = 1
           /\ fetches[1] = q.params
           /\ qres.err # "Transport" => CardinalityChecked

C10_Witness ==
    /\ op = "one" /\ qpc = "end" /\ explicit /\ ParamValues(q.params, "limit") = <<1>>
    /\ Len(listing) > 1 /\ qres.kind = "ok" /\ fetches = <<q.params>>

(* The marker parameters of a request *)
Marker(req) == ParamValues(req, "marker")

(* What an explicit marker / limit selects: the items of the single chunk *)
SelectedIs(ids) ==
    \E pick \in Picks : \E r \in {FirstChunk(pick)} : r.ok /\ ids = r.items

(* C11: all() returns either the complete ordered list of the items the     *)
(* query selects (the whole listing under auto-pagination, the single chunk *)
(* after an explicit marker or limit) or the first error of a chunk fetch;  *)
(* when a fetch fails after earlier chunks were fetched, the caller gets    *)
(* the error and none of the items collected.                               *)
C11_AllOrFirstError ==
    (op = "all" /\ qpc = "end")
        => \/ /\ qres.kind = "ok"
              /\ ~explicit => Ids(qres.items) = listing
              /\ explicit => (Len(fetches) = 1 /\ SelectedIs(Ids(qres.items)))
           \/ /\ qres.kind = "err"
              /\ qres.err \in {"Transport", "BadRequest"}
              /\ qres.items = <<>> /\ yielded = <<>>
              /\ Len(fetches) >= 1
              /\ explicit => Len(fetches) = 1
              /\ \A i \in 2..Len(fetches) :
                    /\ (i - 1) * DefaultLimit(it.query) \in 1..Len(listing)
                    /\ Marker(fetches[i]) = <<listing[(i - 1) * DefaultLimit(it.query)]>>

C11_Witness ==
    /\ op = "all" /\ qpc = "end" /\ qres.kind = "err" /\ qres.err = "Transport"
    /\ Len(fetches) = 2 /\ Len(listing) > SummaryDefaultLimit
    /\ qres.items = <<>>

(* C12: building a query and calling into_iter() (summary or detailed)      *)
(* issues no request; the first list request is issued by the first next(). *)
C12_LazyStart ==
    /\ qpc = "build" => fetches = <<>>
    /\ (qpc = "iter" /\ yielded = <<>>) => (fetches = <<>> /\ ~it.started)
    /\ (op = "iter" /\ (yielded # <<>> \/ qpc = "end")) => Len(fetches) >= 1

C12_Witness ==
    /\ op = "iter" /\ qpc = "iter" /\ it.query.detailed /\ ~explicit
    /\ Len(listing) > 2 /\ fetches = <<>> /\ yielded = <<>>

(* C19: within one auto-paginating iterator the first fetch carries no      *)
(* marker, each later fetch carries the id of the last item of the chunk    *)
(* before it, and no marker is used twice.                                  *)
C19_MarkersAdvance ==
    (~explicit /\ qpc # "build")
        => /\ \A i \in 1..Len(fetches) :
                IF i = 1 THEN Marker(fetches[i]) = <<>>
                ELSE /\ (i - 1) * DefaultLimit(it.query) \in 1..Len(listing)
                     /\ Marker(fetches[i]) = <<listing[(i - 1) * DefaultLimit(it.query)]>>
           /\ \A i, j \in 1..Len(fetches) :
                i < j => Marker(fetches[i]) # Marker(fetches[j])

C19_Witness ==
    /\ ~explicit /\ op = "iter" /\ it.query.detailed /\ Len(fetches) = 3
    /\ Marker(fetches[3]) = <<listing[2 * DetailedDefaultLimit]>>

(* C20: a chunk fetch that fails yields no item of that chunk: when an      *)
(* iteration over a detailed listing ends with an error (the list request   *)
(* or the Server::new of any server of the chunk failed), the items yielded *)
(* are exactly those of the chunks fetched before; when it ends without     *)
(* error, every server of every chunk was yielded.                          *)
C20_NoPartialChunk ==
    (op = "iter" /\ it.query.detailed /\ qpc = "end")
        => /\ qres.kind = "err"
                => /\ Len(fetches) >= 1
                   /\ Ids(yielded) = SubSeq(listing, 1, Len(yielded))
                   /\ ~explicit => Len(yielded) = (Len(fetches) - 1) * DetailedDefaultLimit
                   /\ explicit => yielded = <<>>
           /\ qres.kind = "ok"
                => /\ ~explicit => Ids(yielded) = listing
                   /\ explicit => SelectedIs(Ids(yielded))

C20_Witness ==
    /\ op = "iter" /\ it.query.detailed /\ qpc = "end" /\ ~explicit
    /\ qres.err = "FlavorLookup" /\ Len(fetches) = 2
    /\ Len(listing) = 2 * DetailedDefaultLimit /\ Len(yielded) = DetailedDefaultLimit

-----------------------------------------------------------------------------
(* Further properties of the servers and waiters (checked under WaitSpec) *)

(* Number of calls of the given name in a log *)
CountOf(log, name) == Cardinality({i \in 1..Len(log) : log[i].name = name})

(* Number of NICs of the given kind in a list *)
NicsOf(networks, kind) == Cardinality({i \in 1..Len(networks) : networks[i] = kind})

(* C13: reboot() and start() return a status-waiter targeting Active and    *)
(* stop() one targeting ShutOff; when the waiter appears exactly one call   *)
(* was made, the named action ("reboot" with its type, "os-start",          *)
(* "os-stop") for the entity's id, and no refresh came before it.           *)
C13_ActionThenWaiter ==
    (w.kind = "status" /\ wpc = "waiter")
        => /\ Len(tlog) = 1
           /\ tlog[1].id = srv.id
           /\ \/ tlog[1].name = "reboot" /\ tlog[1].arg \in {"SOFT", "HARD"}
                 /\ w.target = "Active"
              \/ tlog[1].name = "os-start" /\ tlog[1].arg = "" /\ w.target = "Active"
              \/ tlog[1].name = "os-stop" /\ tlog[1].arg = "" /\ w.target = "ShutOff"
           /\ lastPoll = NoPoll

C13_Witness ==
    /\ w.kind = "status" /\ wpc = "waiter" /\ w.target = "ShutOff"
    /\ tlog = <<Call("os-stop", srv.id, "")>> /\ srv.inner.status = "Active"

(* C14: a creation wait resolves with a snapshot whose status is Active and *)
(* whose flavor specs are those the one flavor lookup of create() returned  *)
(* when the entity was loaded: create() looks the flavor up once and copies *)
(* vCPUs, RAM, root disk, ephemeral and swap sizes; no poll looks it up     *)
(* again or changes the specs, whatever the provider's flavor becomes.      *)
C14_CreatedSnapshot ==
    [][ /\ (wpc = "new" /\ wpc' = "waiter")
            => /\ CountOf(tlog', "get_flavor") = 1
               /\ CountOf(tlog', "verify_image") = (IF request.image THEN 1 ELSE 0)
               /\ srv'.inner.image = request.image
               /\ srv'.flavor.vcpu_count = flavor.vcpus
               /\ srv'.flavor.ram_size = flavor.ram
               /\ srv'.flavor.root_size = flavor.disk
               /\ srv'.flavor.ephemeral_size = flavor.ephemeral
               /\ srv'.flavor.swap_size = flavor.swap
        /\ (w.kind = "creation" /\ w'.kind = "creation")
            => /\ srv'.flavor = srv.flavor
               /\ npolls' # npolls => CountOf(tlog', "get_flavor") = 0
        /\ (w'.kind = "creation" /\ wres'.kind = "ok" /\ wres.kind # "ok")
            => /\ wres'.value.id = srv.id
               /\ wres'.value.inner.status = "Active"
               /\ wres'.value.flavor = srv.flavor
      ]_vars

C14_Witness ==
    /\ w.kind = "creation" /\ wres.kind = "ok"
    /\ ~wres.value.inner.image
    /\ wres.value.inner.status = "Active"
    /\ wres.value.flavor.vcpu_count = 2 /\ wres.value.flavor.root_size = 20
    /\ flavor.vcpus = 1

(* C15: create() verifies the flavor, the image and the key pair if given,  *)
(* and every network and port NIC before the create-server call; when a     *)
(* verification fails, create() returns that error and never issues the     *)
(* create-server call.                                                      *)
C15_VerifiedBeforeCreate ==
    [][ (wpc = "new" /\ wpc' # "new")
            => /\ \A i \in 1..Len(tlog') :
                    tlog'[i].name = "create_server"
                        => /\ CountOf(SubSeq(tlog', 1, i - 1), "verify_flavor") = 1
                           /\ CountOf(SubSeq(tlog', 1, i - 1), "verify_image")
                                = (IF request.image THEN 1 ELSE 0)
                           /\ CountOf(SubSeq(tlog', 1, i - 1), "verify_keypair")
                                = (IF request.keypair THEN 1 ELSE 0)
                           /\ CountOf(SubSeq(tlog', 1, i - 1), "verify_network")
                                = NicsOf(request.networks, "network")
                           /\ CountOf(SubSeq(tlog', 1, i - 1), "verify_port")
                                = NicsOf(request.networks, "port")
                           /\ \A j \in (i + 1)..Len(tlog') :
                                tlog'[j].name \in {"get_server", "get_flavor"}
               /\ CountOf(tlog', "create_server") <= 1
               /\ (wres'.kind = "err" /\ CountOf(tlog', "create_server") = 0)
                    => /\ wres'.err = Error("Transport", <<tlog'[Len(tlog')].name, "failed">>)
                       /\ prov' = Gone /\ w' = NoWaiter /\ wpc' = "done"
               /\ wpc' = "waiter" => CountOf(tlog', "create_server") = 1
      ]_vars

C15_Witness ==
    /\ wpc = "done" /\ w = NoWaiter /\ wres.kind = "err" /\ prov = Gone
    /\ Len(tlog) = 3 /\ tlog[3].name = "verify_port"
    /\ wres.err = Error("Transport", <<"verify_port", "failed">>)

(* C16: a poll of a status-waiter or creation-waiter whose refresh fails    *)
(* returns that error as the failure of the wait on that poll: it is not    *)
(* pending, not success, and the poll made one refresh only.                *)
C16_RefreshErrorPropagates ==
    (w.kind \in {"status", "creation"} /\ lastPoll.out # "none" /\ ~lastPoll.ok)
        => /\ lastPoll.out = "err"
           /\ lastPoll.err.kind = lastPoll.refreshErr
           /\ lastPoll.err.kind \in {"Transport", "ResourceNotFound"}
           /\ wpc = "done"
           /\ wres.kind = "err" /\ wres.err = lastPoll.err
           /\ tlog = <<Call("get_server_by_id", srv.id, "")>>

C16_Witness ==
    /\ w.kind = "creation" /\ lastPoll.out = "err" /\ ~lastPoll.ok
    /\ wres.err.kind = "Transport" /\ npolls = 2

(* C17: after a successful refresh the poll's outcome depends on the status *)
(* obtained only: success iff it equals the target, OperationFailed iff it  *)
(* differs from the target and is Error, pending otherwise; the value of a  *)
(* creation-waiter's success is the snapshot that refresh obtained.         *)
C17_OutcomeByStatus ==
    (w.kind \in {"status", "creation"} /\ lastPoll.out # "none" /\ lastPoll.ok)
        => /\ lastPoll.out = "ready" <=> lastPoll.seen = w.target
           /\ lastPoll.out = "err" <=> (lastPoll.seen # w.target /\ lastPoll.seen = "Error")
           /\ lastPoll.out = "err" => lastPoll.err.kind = "OperationFailed"
           /\ lastPoll.out = "pending" <=> lastPoll.seen \notin {w.target, "Error"}
           /\ lastPoll.seen = srv.inner.status
           /\ (w.kind = "creation" /\ lastPoll.out = "ready")
                => (wres.kind = "ok" /\ wres.value = srv /\ wres.value.inner = prov)

C17_Witness ==
    /\ w.kind = "creation" /\ lastPoll.out = "ready" /\ lastPoll.seen = "Active"
    /\ wres.value = srv /\ wres.value.inner.power = "Running" /\ npolls > 1

(* C18: refresh() is all-or-nothing: after a successful refresh the         *)
(* snapshot is the one get-by-id returned for the entity's id, in every     *)
(* field; after a failed one (ResourceNotFound when the entity has          *)
(* vanished) the handle is what it was before the call.                     *)
C18_RefreshAtomic ==
    [][ npolls' = npolls + 1
            => /\ lastPoll'.ok => srv' = [srv EXCEPT !.inner = prov]
               /\ ~lastPoll'.ok => srv' = srv
               /\ prov = Gone => (~lastPoll'.ok
                                  /\ lastPoll'.refreshErr \in {"ResourceNotFound", "Transport"})
               /\ lastPoll'.refreshErr = "ResourceNotFound" => prov = Gone
      ]_vars

C18_Witness ==
    /\ w.kind = "status" /\ lastPoll.out = "err" /\ lastPoll.refreshErr = "ResourceNotFound"
    /\ prov = Gone /\ srv.inner.status = "Rebooting" /\ srv.inner.power = "Running"
    /\ npolls > 1

(* C21: while a waiter is alive it alone uses its Server: the only calls    *)
(* made and the only changes of the handle are those of the waiter's polls, *)
(* no reboot, start, stop or delete interleaves with them, and the handle   *)
(* comes back only when a status-waiter ends; a deletion-waiter never gives *)
(* it back and a creation-waiter hands over the Server it resolved with.    *)
C21_ExclusiveHandle ==
    [][ w.kind # "none"
            => /\ (tlog' # tlog \/ srv' # srv \/ w' # w)
                    => \/ /\ wpc = "poll" /\ npolls' = npolls + 1 /\ w' = w
                          /\ tlog' = <<Call("get_server_by_id", srv.id, "")>>
                          /\ srv'.id = srv.id
                       \/ /\ wpc = "done" /\ wpc' = "idle" /\ w' = NoWaiter
                          /\ w.kind # "deletion"
                          /\ w.kind = "status" => srv' = srv
                          /\ w.kind = "creation" => (wres.kind = "ok" /\ srv' = wres.value)
               /\ wpc' # "idle" => w' = w
      ]_vars

C21_Witness ==
    /\ w.kind = "status" /\ wpc = "sleep" /\ npolls = 3
    /\ tlog = <<Call("get_server_by_id", srv.id, "")>>

(* create() has returned an error *)
CreateFailed ==
    /\ wpc = "done" /\ w = NoWaiter /\ wres.kind = "err"
    /\ tlog # <<>> /\ tlog[1].name = "verify_flavor"

(* C23: NewServer::create is atomic: whenever create() returns an error, no *)
(* server has been created at the provider.                                 *)
C23_ErrorMeansNotCreated == CreateFailed => prov = Gone

(* C24: a status-waiter returned by reboot() or start() reports success only *)
(* for an Active status that results from the action: the first poll does   *)
(* not report success when the provider still shows the server Active and  *)
(* has not changed it since the action was requested.                       *)
C24_NoStaleSuccess ==
    [][ ( /\ w.kind = "status" /\ w.target = "Active"
          /\ tlog # <<>> /\ tlog[1].name \in {"reboot", "os-start"}
          /\ wpc = "poll" /\ npolls = 0 /\ npolls' = 1
          /\ prov.status = "Active" /\ ~moved )
            => lastPoll'.out # "ready"
      ]_vars

(* C22: driven with their default timeouts, waits on the status-waiter, the *)
(* creation-waiter and the deletion-waiter always terminate: whatever the   *)
(* provider reports, a wait that has started eventually ends in success,    *)
(* failure or OperationTimedOut.                                             *)
C22_DefaultWaitsEnd ==
    (wpc = "poll") ~> (wpc = "done" /\ wres.kind \in {"ok", "err"})

C22_Witness ==
    /\ w.kind = "creation" /\ wpc = "done"
    /\ timeout = CreationWaitTimeout /\ elapsed > CreationWaitTimeout
    /\ lastPoll.out = "pending" /\ lastPoll.seen = "Building"
    /\ wres.kind = "err" /\ wres.err.kind = "OperationTimedOut"

====
